---- MODULE Spec2Model ----
(***************************************************************************)
(* Model of tasks/events/src/main.rs: handle_event(duration).              *)
(* One task (the waiter, the caller of handle_event) locks a               *)
(* Mutex<bool>, spawns a second task (the signaler) and waits on a Condvar *)
(* until the bool is true; the signaler locks the mutex, sets the bool,    *)
(* sleeps for `duration`, calls notify_one and drops its guard.            *)
(*                                                                         *)
(* Time is a discrete clock `now`.  Condvar::wait is modelled in its three *)
(* parts: atomic release-and-suspend, wakeup (by notify_one or spurious),  *)
(* and re-acquisition of the mutex before it returns.                      *)
(***************************************************************************)
EXTENDS Integers, FiniteSets, Sequences, TLC

VARIABLES
  flag,      \* the bool inside the Mutex (line 19)
  mutex,     \* set of tasks that own a MutexGuard
  cond,      \* set of tasks suspended on the Condvar
  wpc,       \* position of the waiter (caller of handle_event)
  spc,       \* position of the signaler (the spawned closure)
  now,       \* the monotonic clock read by Instant::now / elapsed
  duration,  \* the argument of handle_event
  start,     \* `start` (line 21), -1 before it is taken
  elapsed,   \* `elapsed` (line 49), -1 before it is taken
  wake,      \* clock value at which thread::sleep may return, -1 if unset
  spawned,   \* number of tasks spawned by this call
  waits,     \* number of calls of cond.wait made by the waiter
  notifies,  \* number of calls of notify_one made by the signaler
  woken,     \* number of tasks woken by notify_one
  spurious   \* number of spurious wakeups of the waiter

vars == <<flag, mutex, cond, wpc, spc, now, duration, start, elapsed, wake,
          spawned, waits, notifies, woken, spurious>>

----------------------------------------------------------------------------
\* Bounds of the model

MaxDuration == 2
MaxClock == 3
MaxSpurious == 2

----------------------------------------------------------------------------
\* Tasks

Waiter == "waiter"
Signaler == "signaler"

----------------------------------------------------------------------------
\* Primitives of std::sync and std::thread, as the code uses them

\* Mutex::lock blocks while another guard exists.
CanLock_Always(m) == TRUE
CanLock(m) == m = {}

\* Mutex::lock returns a guard to the calling task.
Lock(m, t) == m \cup {t}

\* Dropping a guard unlocks the mutex.
Unlock(m, t) == m \ {t}

\* Condvar::wait, first part: the guard passed in is released and the
\* caller is suspended on the condvar, atomically.
WaitRelease_Keep(m, t) == m
WaitRelease(m, t) == m \ {t}

\* Condvar::notify_one: the remaining set of suspended tasks; at most one
\* suspended task is woken, none if nobody is suspended.
notify_one_Lost(c) == c
notify_one(c) == IF c = {} THEN {} ELSE c \ {CHOOSE t \in c : TRUE}

\* thread::sleep(duration) returns no earlier than `duration` after the call.
SleepDone_Early(clock, deadline) == TRUE
SleepDone(clock, deadline) == clock >= deadline

\* Instant::elapsed
Elapsed(clock, since) == clock - since

----------------------------------------------------------------------------
\* Control flow of the waiter: the straight-line parts of handle_event
\* (lines 21, 24, 26, then the loop at 45; lines 49, 51, 53).

WaiterOrder_SpawnFirst(pc) ==
  CASE pc = "start"   -> "spawn"
    [] pc = "spawn"   -> "lock"
    [] pc = "lock"    -> "test"
    [] pc = "elapsed" -> "drop"
    [] pc = "drop"    -> "return"
    [] pc = "return"  -> "returned"
WaiterOrder_NoLock(pc) ==
  CASE pc = "start"   -> "spawn"
    [] pc = "spawn"   -> "test"
    [] pc = "lock"    -> "test"
    [] pc = "elapsed" -> "drop"
    [] pc = "drop"    -> "return"
    [] pc = "return"  -> "returned"
WaiterOrder(pc) ==
  CASE pc = "start"   -> "lock"
    [] pc = "lock"    -> "spawn"
    [] pc = "spawn"   -> "test"
    [] pc = "elapsed" -> "drop"
    [] pc = "drop"    -> "return"
    [] pc = "return"  -> "returned"

\* The loop `while !*guard { guard = cond.wait(guard).unwrap(); }`:
\* where control goes after the test, and after cond.wait has returned.
LoopTest_Once(f, n) == IF ~f /\ n = 0 THEN "wait" ELSE "elapsed"
LoopTest(f, n) == IF ~f THEN "wait" ELSE "elapsed"

\* Control flow of the signaler closure (lines 29, 30, 33, 41, 43).
SignalerOrder_NotifyAfterDrop(pc) ==
  CASE pc = "lock"     -> "set"
    [] pc = "set"      -> "sleep"
    [] pc = "sleep"    -> "sleeping"
    [] pc = "sleeping" -> "drop"
    [] pc = "drop"     -> "notify"
    [] pc = "notify"   -> "done"
SignalerOrder_NoSet(pc) ==
  CASE pc = "lock"     -> "sleep"
    [] pc = "set"      -> "sleep"
    [] pc = "sleep"    -> "sleeping"
    [] pc = "sleeping" -> "notify"
    [] pc = "notify"   -> "drop"
    [] pc = "drop"     -> "done"
SignalerOrder(pc) ==
  CASE pc = "lock"     -> "set"
    [] pc = "set"      -> "sleep"
    [] pc = "sleep"    -> "sleeping"
    [] pc = "sleeping" -> "notify"
    [] pc = "notify"   -> "drop"
    [] pc = "drop"     -> "done"

----------------------------------------------------------------------------
\* State after `pair` and `pair_` are built (lines 19-20)

Init ==
  /\ flag = FALSE
  /\ mutex = {}
  /\ cond = {}
  /\ wpc = "start"
  /\ spc = "unspawned"
  /\ now = 0
  /\ duration \in 0..MaxDuration
  /\ start = -1
  /\ elapsed = -1
  /\ wake = -1
  /\ spawned = 0
  /\ waits = 0
  /\ notifies = 0
  /\ woken = 0
  /\ spurious = 0

----------------------------------------------------------------------------
\* The waiter

\* line 21: let start = Instant::now();
W_Start ==
  /\ wpc = "start"
  /\ start' = now
  /\ wpc' = WaiterOrder(wpc)
  /\ UNCHANGED <<flag, mutex, cond, spc, now, duration, elapsed, wake,
                 spawned, waits, notifies, woken, spurious>>

\* line 24: let mut guard = mutex.lock().unwrap();
W_Lock ==
  /\ wpc = "lock"
  /\ CanLock(mutex)
  /\ mutex' = Lock(mutex, Waiter)
  /\ wpc' = WaiterOrder(wpc)
  /\ UNCHANGED <<flag, cond, spc, now, duration, start, elapsed, wake,
                 spawned, waits, notifies, woken, spurious>>

\* line 26: spawn(move || { ... });
W_Spawn ==
  /\ wpc = "spawn"
  /\ spc' = "lock"
  /\ spawned' = spawned + 1
  /\ wpc' = WaiterOrder(wpc)
  /\ UNCHANGED <<flag, mutex, cond, now, duration, start, elapsed, wake,
                 waits, notifies, woken, spurious>>

\* line 45: while !*guard
W_Test ==
  /\ wpc = "test"
  /\ wpc' = LoopTest(flag, waits)
  /\ UNCHANGED <<flag, mutex, cond, spc, now, duration, start, elapsed, wake,
                 spawned, waits, notifies, woken, spurious>>

\* line 46: cond.wait(guard), entry: release the mutex and suspend
W_Wait ==
  /\ wpc = "wait"
  /\ mutex' = WaitRelease(mutex, Waiter)
  /\ cond' = cond \cup {Waiter}
  /\ waits' = waits + 1
  /\ wpc' = "waiting"
  /\ UNCHANGED <<flag, spc, now, duration, start, elapsed, wake,
                 spawned, notifies, woken, spurious>>

\* line 46: cond.wait(guard), a wakeup that no notify caused
W_Spurious ==
  /\ wpc = "waiting"
  /\ Waiter \in cond
  /\ spurious < MaxSpurious
  /\ cond' = cond \ {Waiter}
  /\ spurious' = spurious + 1
  /\ wpc' = "reacquire"
  /\ UNCHANGED <<flag, mutex, spc, now, duration, start, elapsed, wake,
                 spawned, waits, notifies, woken>>

\* line 46: cond.wait(guard), exit: re-acquire the mutex, return the guard,
\* and go back to the loop test
W_Reacquire_Consume ==
  /\ wpc = "reacquire"
  /\ CanLock(mutex)
  /\ mutex' = Lock(mutex, Waiter)
  /\ flag' = FALSE
  /\ wpc' = "test"
  /\ UNCHANGED <<cond, spc, now, duration, start, elapsed, wake,
                 spawned, waits, notifies, woken, spurious>>
W_Reacquire ==
  /\ wpc = "reacquire"
  /\ CanLock(mutex)
  /\ mutex' = Lock(mutex, Waiter)
  /\ wpc' = "test"
  /\ UNCHANGED <<flag, cond, spc, now, duration, start, elapsed, wake,
                 spawned, waits, notifies, woken, spurious>>

\* line 49: let elapsed = start.elapsed();
W_Elapsed ==
  /\ wpc = "elapsed"
  /\ elapsed' = Elapsed(now, start)
  /\ wpc' = WaiterOrder(wpc)
  /\ UNCHANGED <<flag, mutex, cond, spc, now, duration, start, wake,
                 spawned, waits, notifies, woken, spurious>>

\* line 51: drop(guard);
W_Drop_Reset ==
  /\ wpc = "drop"
  /\ mutex' = Unlock(mutex, Waiter)
  /\ flag' = FALSE
  /\ wpc' = WaiterOrder(wpc)
  /\ UNCHANGED <<cond, spc, now, duration, start, elapsed, wake,
                 spawned, waits, notifies, woken, spurious>>
W_Drop ==
  /\ wpc = "drop"
  /\ mutex' = Unlock(mutex, Waiter)
  /\ wpc' = WaiterOrder(wpc)
  /\ UNCHANGED <<flag, cond, spc, now, duration, start, elapsed, wake,
                 spawned, waits, notifies, woken, spurious>>

\* line 53: elapsed  (handle_event returns)
W_Return ==
  /\ wpc = "return"
  /\ wpc' = WaiterOrder(wpc)
  /\ UNCHANGED <<flag, mutex, cond, spc, now, duration, start, elapsed, wake,
                 spawned, waits, notifies, woken, spurious>>

----------------------------------------------------------------------------
\* The signaler

\* line 29: let mut guard = mutex_.lock().unwrap();
S_Lock ==
  /\ spc = "lock"
  /\ CanLock(mutex)
  /\ mutex' = Lock(mutex, Signaler)
  /\ spc' = SignalerOrder(spc)
  /\ UNCHANGED <<flag, cond, wpc, now, duration, start, elapsed, wake,
                 spawned, waits, notifies, woken, spurious>>

\* line 30: *guard = true;
S_Set ==
  /\ spc = "set"
  /\ flag' = TRUE
  /\ spc' = SignalerOrder(spc)
  /\ UNCHANGED <<mutex, cond, wpc, now, duration, start, elapsed, wake,
                 spawned, waits, notifies, woken, spurious>>

\* line 33: thread::sleep(duration), entry
S_Sleep ==
  /\ spc = "sleep"
  /\ wake' = now + duration
  /\ spc' = SignalerOrder(spc)
  /\ UNCHANGED <<flag, mutex, cond, wpc, now, duration, start, elapsed,
                 spawned, waits, notifies, woken, spurious>>

\* line 33: thread::sleep(duration), return
S_SleepEnd ==
  /\ spc = "sleeping"
  /\ SleepDone(now, wake)
  /\ spc' = SignalerOrder(spc)
  /\ UNCHANGED <<flag, mutex, cond, wpc, now, duration, start, elapsed, wake,
                 spawned, waits, notifies, woken, spurious>>

\* line 41: cond_.notify_one();
S_Notify ==
  /\ spc = "notify"
  /\ cond' = notify_one(cond)
  /\ notifies' = notifies + 1
  /\ woken' = woken + Cardinality(cond \ cond')
  /\ wpc' = IF Waiter \in cond \ cond' THEN "reacquire" ELSE wpc
  /\ spc' = SignalerOrder(spc)
  /\ UNCHANGED <<flag, mutex, now, duration, start, elapsed, wake,
                 spawned, waits, spurious>>

\* line 43: end of the closure, the guard is dropped and the task ends
S_Drop ==
  /\ spc = "drop"
  /\ mutex' = Unlock(mutex, Signaler)
  /\ spc' = SignalerOrder(spc)
  /\ UNCHANGED <<flag, cond, wpc, now, duration, start, elapsed, wake,
                 spawned, waits, notifies, woken, spurious>>

----------------------------------------------------------------------------
\* The clock.  It runs on its own up to MaxClock, and as far beyond as a
\* pending thread::sleep needs.

Tick ==
  /\ \/ now < MaxClock
     \/ spc = "sleeping" /\ now < wake
  /\ now' = now + 1
  /\ UNCHANGED <<flag, mutex, cond, wpc, spc, duration, start, elapsed, wake,
                 spawned, waits, notifies, woken, spurious>>

----------------------------------------------------------------------------

WaiterStep ==
  \/ W_Start
  \/ W_Lock
  \/ W_Spawn
  \/ W_Test
  \/ W_Wait
  \/ W_Reacquire
  \/ W_Elapsed
  \/ W_Drop
  \/ W_Return

SignalerStep ==
  \/ S_Lock
  \/ S_Set
  \/ S_Sleep
  \/ S_SleepEnd
  \/ S_Notify
  \/ S_Drop

Next ==
  \/ WaiterStep
  \/ W_Spurious
  \/ SignalerStep
  \/ Tick

Spec == Init /\ [][Next]_vars

\* Both threads are scheduled fairly and the clock advances; a spurious
\* wakeup is never owed.
FairSpec ==
  /\ Spec
  /\ WF_vars(WaiterStep)
  /\ WF_vars(SignalerStep)
  /\ WF_vars(Tick)

TypeOK ==
  /\ flag \in BOOLEAN
  /\ mutex \subseteq {Waiter, Signaler}
  /\ cond \subseteq {Waiter}
  /\ now \in 0..(MaxClock + MaxDuration)
  /\ duration \in 0..MaxDuration
  /\ spurious \in 0..MaxSpurious

----------------------------------------------------------------------------
\* Properties

WaiterLeftLoop == wpc \in {"elapsed", "drop", "return", "returned"}
SignalerInCriticalSection == spc \in {"set", "sleep", "sleeping", "notify", "drop"}

\* C1: under fair scheduling of both threads and a sleep that finishes,
\* handle_event eventually returns, for every delay (0 included) and with
\* spurious wakeups allowed: the waiter is never left in cond.wait forever.
HandleEventReturns == <>(wpc = "returned")

HandleEventReturns_Witness ==
  wpc = "returned" /\ duration = 0 /\ spurious > 0 /\ waits >= 1

\* C2: the value handle_event returns is at least `duration`.
ElapsedAtLeastDuration ==
  /\ elapsed # -1 => elapsed >= duration
  /\ wpc \in {"drop", "return", "returned"} => elapsed # -1

ElapsedAtLeastDuration_Witness ==
  wpc = "returned" /\ duration = MaxDuration /\ elapsed = duration

\* C3: the signaler does not own the mutex, and the flag is not set, before
\* the waiter has entered cond.wait for the first time.
LockBeforeSpawn ==
  (Signaler \in mutex \/ flag \/ spc \notin {"unspawned", "lock"}) => waits >= 1

LockBeforeSpawn_Witness ==
  spc = "set" /\ Signaler \in mutex /\ waits = 1 /\ wpc = "waiting"

\* C4 (as claimed): whenever the signaler is at notify_one, the waiter is
\* suspended on the condition variable, spurious wakeups included.
NotifyFindsSuspendedWaiter ==
  spc = "notify" => (wpc = "waiting" /\ Waiter \in cond /\ Waiter \notin mutex)

\* C4 (amended): whenever the signaler is at notify_one, the waiter is inside
\* cond.wait and has released the mutex; it is either still suspended on the
\* condition variable or, after a spurious wakeup, blocked re-acquiring the
\* mutex.  Without a spurious wakeup it is suspended, and the one
\* notification wakes it.
NotifyFindsWaiterInWait ==
  /\ spc = "notify" =>
       /\ waits >= 1
       /\ Waiter \notin mutex
       /\ wpc \in {"waiting", "reacquire"}
       /\ (wpc = "waiting") = (Waiter \in cond)
       /\ wpc = "reacquire" => spurious > 0
  /\ notifies >= 1 => (woken = 1 \/ spurious > 0)

NotifyFindsWaiterInWait_Witness ==
  spc = "notify" /\ wpc = "reacquire" /\ cond = {}

\* C5: at most one task owns the mutex, and a waiter suspended in cond.wait
\* does not own it.
MutualExclusion ==
  /\ Cardinality(mutex) <= 1
  /\ wpc \in {"waiting", "reacquire"} => Waiter \notin mutex

MutualExclusion_Witness ==
  mutex = {Signaler} /\ wpc = "reacquire"

\* C6: the waiter tests the flag, and the signaler writes it, only while
\* owning the mutex.
FlagAccessUnderLock ==
  /\ wpc = "test" => Waiter \in mutex
  /\ spc = "set" => Signaler \in mutex

FlagAccessUnderLock_Witness ==
  wpc = "test" /\ flag /\ Waiter \in mutex

\* C7: the waiter leaves its loop only with the flag true; after each return
\* of cond.wait it tests the flag again and waits again if it is false.
LoopExitsOnlyWhenSignaled ==
  [][ /\ WaiterLeftLoop' => flag'
      /\ (wpc = "reacquire" /\ wpc' # wpc) => wpc' = "test"
      /\ (wpc = "test" /\ wpc' # wpc) =>
            wpc' = (IF flag THEN "elapsed" ELSE "wait") ]_vars

LoopExitsOnlyWhenSignaled_Witness ==
  wpc = "returned" /\ flag /\ waits >= 2

\* C8: the signaler owns the mutex from its lock acquisition until its guard
\* is dropped, and the waiter, back from cond.wait, sees the flag true only
\* after the signaler has slept, notified and released the mutex.
FlagVisibleOnlyAfterRelease ==
  /\ SignalerInCriticalSection => mutex = {Signaler}
  /\ (flag /\ (wpc = "test" \/ WaiterLeftLoop)) =>
        (spc = "done" /\ notifies = 1 /\ now >= wake /\ wake # -1)

FlagVisibleOnlyAfterRelease_Witness ==
  flag /\ wpc = "test" /\ spc = "done"

\* Phases of a handshake, in the order of the state machine
Phases == <<"Idle", "WaiterHoldingLock", "WaiterBlockedInWait", "Signaled", "Done">>

\* Position in Phases of the phase the handshake is in: Done once the waiter
\* has dropped its guard, Signaled once the flag is set and notify_one was
\* called, WaiterBlockedInWait once cond.wait was called, WaiterHoldingLock
\* once the waiter owns the mutex.
PhaseIndex ==
  IF wpc \in {"return", "returned"} THEN 5
  ELSE IF flag /\ notifies >= 1 THEN 4
  ELSE IF waits >= 1 THEN 3
  ELSE IF Waiter \in mutex THEN 2
  ELSE 1

Phase == Phases[PhaseIndex]

\* C9: a handshake goes through Idle, WaiterHoldingLock, WaiterBlockedInWait,
\* Signaled, Done in that order, one phase at a time; once Signaled the
\* waiter does not wait again; Done is entered with the flag observed true
\* and the waiter's guard dropped.
PhaseOrder ==
  [][ /\ PhaseIndex' \in {PhaseIndex, PhaseIndex + 1}
      /\ Phase \in {"Signaled", "Done"} => waits' = waits
      /\ Phase' = "Done" => (flag' /\ Waiter \notin mutex' /\ elapsed' # -1) ]_vars

PhaseOrder_Witness ==
  Phase = "Done" /\ spurious > 0 /\ waits >= 2

\* C10: one signaler task is spawned per call, and under fair scheduling it
\* terminates, with its guard dropped.
SignalerTerminates ==
  /\ []( /\ spawned <= 1
         /\ (spc # "unspawned") = (spawned = 1)
         /\ wpc \notin {"start", "lock", "spawn"} => spawned = 1
         /\ spc = "done" => Signaler \notin mutex )
  /\ <>(spc = "done")

SignalerTerminates_Witness ==
  spc = "done" /\ spawned = 1 /\ Signaler \notin mutex /\ wpc = "returned"

\* C11: the signaler calls notify_one once per handshake, and when it does
\* the flag is already true and the signaler still owns the mutex: the flag
\* is set before the notify and the notify comes before the release.
OneNotifyUnderLock ==
  [][ /\ notifies' \in {notifies, notifies + 1}
      /\ notifies' <= 1
      /\ notifies' # notifies =>
           (flag /\ Signaler \in mutex /\ Signaler \in mutex' /\ spc = "notify")
      /\ spc' = "done" => (notifies' = 1 /\ Signaler \notin mutex') ]_vars

OneNotifyUnderLock_Witness ==
  notifies = 1 /\ flag /\ spc = "drop" /\ Signaler \in mutex

\* C12: no step of the waiter changes the flag; the flag changes only in the
\* signaler's assignment at line 30, made while it owns the mutex.
OnlySignalerWritesFlag ==
  [][ /\ (wpc' # wpc \/ WaiterStep \/ W_Spurious) => flag' = flag
      /\ flag' # flag =>
           /\ spc = "set" /\ spc' # spc
           /\ Signaler \in mutex
           /\ wpc' = wpc ]_vars

OnlySignalerWritesFlag_Witness ==
  flag /\ wpc = "returned" /\ waits >= 2

\* C13 (as claimed): the caller acquires the mutex, then records the start
\* timestamp, then spawns the signaler.
StartAfterLock ==
  /\ start # -1 => wpc \notin {"start", "lock"}
  /\ spawned >= 1 => start # -1

\* C13 (amended): the start timestamp is recorded first, then the caller
\* acquires the mutex, then the signaler is spawned: the timestamp is taken
\* before the initial lock acquisition, and both come before the spawn.
StartThenLockThenSpawn ==
  /\ (Waiter \in mutex \/ waits >= 1) => start # -1
  /\ wpc = "lock" => (start # -1 /\ Waiter \notin mutex /\ spawned = 0)
  /\ wpc = "spawn" => (start # -1 /\ Waiter \in mutex /\ spawned = 0)
  /\ spawned >= 1 => (start # -1 /\ wpc \notin {"start", "lock", "spawn"})

StartThenLockThenSpawn_Witness ==
  wpc = "spawn" /\ Waiter \in mutex /\ start # -1 /\ start < now /\ spawned = 0

NoWaitAfterNotify ==
  [][ /\ notifies >= 1 => (waits' = waits /\ wpc' \notin {"wait", "waiting"})
      /\ (spc = "done" /\ wpc = "reacquire" /\ wpc' # wpc) =>
            (wpc' = "test" /\ flag')
      /\ (spc = "done" /\ wpc = "test" /\ wpc' # wpc) => wpc' = "elapsed" ]_vars

NoWaitAfterNotify_Witness ==
  wpc = "elapsed" /\ spc = "done" /\ notifies = 1 /\ woken = 0 /\ spurious > 0

\* C17: without spurious wakeups the waiter's first test sees the flag
\* false, it calls cond.wait once and is woken once, by the one notify_one.
OneWaitWithoutSpurious ==
  /\ (wpc = "test" /\ waits = 0) => ~flag
  /\ spurious = 0 =>
       /\ waits <= 1
       /\ woken <= 1
       /\ (wpc = "reacquire" \/ (wpc = "test" /\ waits >= 1)) =>
             (woken = 1 /\ notifies = 1)
       /\ WaiterLeftLoop => (waits = 1 /\ woken = 1 /\ notifies = 1)

OneWaitWithoutSpurious_Witness ==
  wpc = "returned" /\ spurious = 0 /\ waits = 1 /\ woken = 1

\* C18: as long as handle_event has not returned or the signaler has not
\* terminated, one of the two tasks can take a step (a signaler inside
\* thread::sleep is waiting for the clock, which can advance); the waiter is
\* never suspended on the condition variable while the signaler is finished
\* or blocked on the mutex.
NoDeadlock ==
  /\ (wpc # "returned" \/ spc # "done") =>
        \/ ENABLED WaiterStep
        \/ ENABLED SignalerStep
        \/ (spc = "sleeping" /\ ENABLED Tick)
  /\ wpc = "waiting" =>
        \/ spc \in {"set", "sleep", "sleeping", "notify"}
        \/ (spc = "lock" /\ CanLock(mutex))

NoDeadlock_Witness ==
  wpc = "waiting" /\ spc = "sleeping" /\ now < wake /\ spurious > 0

====
